---- MODULE Spec2Model ----
(***************************************************************************)
(* One-time-secret service: SecretService (services.py) on top of the      *)
(* in-memory FakeSecretRepository (database.py), with the encryption       *)
(* helpers of utils.py.                                                    *)
(*                                                                         *)
(* Calls of generate_secret and get_secret are coroutines.  A call runs    *)
(* atomically between two awaits; each await on a repository method is a   *)
(* point where other calls may run.  An action below is the repository     *)
(* operation awaited together with the code that follows it up to the next *)
(* await (or the return/raise).                                            *)
(*                                                                         *)
(* Optional values (Optional[Secret], Optional[datetime]) are sequences of *)
(* length at most one: <<>> is None, <<v>> is the value v.                 *)
(***************************************************************************)
EXTENDS Integers, Sequences, FiniteSets, TLC

\* ---- bounds of the model ------------------------------------------------
MaxCalls == 3      \* service calls in one behaviour
MaxTime == 2       \* the clock runs 0..MaxTime

Calls == 1..MaxCalls
Times == 0..MaxTime
\* the values str(uuid.uuid4()) can return
Keys == {"k1", "k2"}
\* the values os.urandom(16) can return.  The service encrypts and decrypts
\* under one master key, so no behaviour of the service or the repository
\* depends on which salt was drawn: one value stands for all of them here.
Salts == {"s1"}
\* the values the repository's own uuid4 (Secret.id) can return; the id is
\* written once and never read
Ids == {"i1"}
Plaintexts == {"p1", "p2"}
Passphrases == {"a", "b"}
\* request.expiration: None or a time
Expirations == {<<>>, <<1>>}

\* os.getenv("MASTER_KEY") of the running service
MASTER_KEY == "mk"
\* exceptions of services.py
InvalidSecretKeyException == "InvalidSecretKeyException"
InvalidPassphraseException == "InvalidPassphraseException"
\* cryptography.fernet.InvalidToken, raised by decrypt
InvalidToken == "InvalidToken"
\* the error a repository operation raises when its backend is unavailable
StoreUnavailable == "StoreUnavailable"
Exceptions ==
    {InvalidSecretKeyException, InvalidPassphraseException, InvalidToken,
     StoreUnavailable}

\* ---- utils.py -----------------------------------------------------------
\* PBKDF2HMAC(salt).derive(master_key): a function of both arguments
derive_key(master_key, salt) == <<master_key, salt>>

\* encrypt leaving out the Fernet step: the salt and the data, only encoded
encrypt_Unsealed(data, master_key, salt) ==
    [salt |-> salt, key |-> <<>>, body |-> data]

\* salt + Fernet(key).encrypt(data): the salt travels in front of the token,
\* the token can only be opened with the key it was made with
encrypt(data, master_key, salt) ==
    [salt |-> salt, key |-> derive_key(master_key, salt), body |-> data]

\* decrypt taking the salt from the wrong end of the payload
decrypt_WrongSalt(encrypted_data, master_key) ==
    IF derive_key(master_key, "tail") = encrypted_data.key
    THEN encrypted_data.body
    ELSE InvalidToken

\* a decrypt that opens the token whatever key it is given
decrypt_Unchecked(encrypted_data, master_key) == encrypted_data.body

\* Fernet(key).decrypt raises InvalidToken under another key
decrypt(encrypted_data, master_key) ==
    IF derive_key(master_key, encrypted_data.salt) = encrypted_data.key
    THEN encrypted_data.body
    ELSE InvalidToken

\* a Secret built with the two encrypted values in each other's place
Secret_Swapped(secret, passphrase, secret_key, expiration) ==
    [id |-> "-", secret |-> passphrase, passphrase |-> secret,
     secret_key |-> secret_key, expiration |-> expiration]

\* ---- models.py / the record built at services.py:51 ---------------------
\* (id is None until the repository sets it)
Secret(secret, passphrase, secret_key, expiration) ==
    [id |-> "-", secret |-> secret, passphrase |-> passphrase,
     secret_key |-> secret_key, expiration |-> expiration]

\* ---- database.py: FakeSecretRepository ----------------------------------
\* self.data = {}
EmptyData == [k \in {} |-> k]

\* a create that rebinds the whole dict: self.data = {secret_key: secret}
create_secret_Rebind(d, secret, id) ==
    [k \in {secret.secret_key} |-> [secret EXCEPT !.id = id]]

\* secret.id = str(uuid.uuid4()); self.data[secret.secret_key] = secret
create_secret(d, secret, id) ==
    [k \in (DOMAIN d) \cup {secret.secret_key} |->
        IF k = secret.secret_key THEN [secret EXCEPT !.id = id] ELSE d[k]]

\* a lookup that ignores the key: whatever record the store holds
get_secret_AnyRecord(d, secret_key) ==
    IF DOMAIN d # {} THEN <<d[CHOOSE k \in DOMAIN d : TRUE]>> ELSE <<>>

\* self.data.get(secret_key)
get_secret(d, secret_key) ==
    IF secret_key \in DOMAIN d THEN <<d[secret_key]>> ELSE <<>>

\* a delete that empties the store
delete_secret_Clear(d, secret_key) == EmptyData

\* if secret_key in self.data: del self.data[secret_key]
delete_secret(d, secret_key) ==
    IF secret_key \in DOMAIN d
    THEN [k \in (DOMAIN d) \ {secret_key} |-> d[k]]
    ELSE d

VARIABLES
    data,     \* FakeSecretRepository.data: dict secret_key -> Secret
    now,      \* the wall clock
    calls,    \* the service calls: position and locals of each coroutine
    issued,   \* the keys uuid4 has returned so far
    ret       \* the last direct repository operation and what it returned

vars == <<data, now, calls, issued, ret>>

\* the record's expiration time has been reached
Expired(secret, t) == secret.expiration # <<>> /\ t >= secret.expiration[1]

\* a coroutine that has not been called yet
IdleCall ==
    [op |-> "idle", pc |-> "idle", secret_key |-> "-", passphrase |-> "-",
     plain |-> "-", secret |-> <<>>, decrypted_secret |-> "-", result |-> "-",
     late |-> FALSE, known |-> FALSE, afterWrong |-> FALSE, expired |-> FALSE,
     afterDecrypt |-> FALSE, creates |-> 0, gets |-> 0, deletes |-> 0]

\* calls are numbered in the order they are made
NextCall(c) == calls[c].pc = "idle" /\ \A b \in Calls : b < c => calls[b].pc # "idle"

\* get_secret calls that have returned a plaintext for the key k
Succeeded(k) ==
    {c \in Calls : /\ calls[c].op = "get" /\ calls[c].pc = "done"
                   /\ calls[c].secret_key = k /\ calls[c].result \notin Exceptions}

\* generate_secret calls that have returned the key k
Generated(k) ==
    {c \in Calls : /\ calls[c].op = "generate" /\ calls[c].pc = "done"
                   /\ calls[c].result = k}

\* get_secret calls on the key k that ended with InvalidPassphraseException
Rejected(k) ==
    {c \in Calls : /\ calls[c].op = "get" /\ calls[c].pc = "done"
                   /\ calls[c].secret_key = k
                   /\ calls[c].result = InvalidPassphraseException}

\* get_secret calls that have decrypted the secret stored under the key k
Decrypted(k) ==
    {c \in Calls : /\ calls[c].op = "get" /\ calls[c].secret_key = k
                   /\ calls[c].decrypted_secret # "-"}

\* str(uuid.uuid4()): a value that no earlier uuid4() call returned
uuid4(used) == Keys \ used

\* no repository operation has been called directly yet
NoOp ==
    [op |-> "none", key |-> "-", val |-> <<>>, raised |-> "-",
     pre |-> EmptyData, time |-> 0]

Init ==
    /\ data = EmptyData
    /\ now = 0
    /\ calls = [c \in Calls |-> IdleCall]
    /\ issued = {}
    /\ ret = NoOp

\* ---- services.py: SecretService.generate_secret -------------------------
\* lines 46-56: encrypt secret and passphrase, draw the key, build the Secret;
\* the call then waits at `await self.repository.create(secret)`
GenerateBegin(c) ==
    /\ NextCall(c)
    /\ \E plain \in Plaintexts, pass \in Passphrases, exp \in Expirations,
          s1 \in Salts, s2 \in Salts, k \in uuid4(issued) :
          /\ calls' = [calls EXCEPT ![c] =
                [IdleCall EXCEPT
                   !.op = "generate", !.pc = "create",
                   !.secret_key = k, !.passphrase = pass, !.plain = plain,
                   !.secret = <<Secret(encrypt(plain, MASTER_KEY, s1),
                                       encrypt(pass, MASTER_KEY, s2), k, exp)>>]]
          /\ issued' = issued \cup {k}
    /\ UNCHANGED <<data, now, ret>>

\* line 58-59: repository.create runs, the call returns the key
GenerateCreate(c) ==
    /\ calls[c].op = "generate" /\ calls[c].pc = "create"
    /\ \E id \in Ids :
          data' = create_secret(data, calls[c].secret[1], id)
    /\ calls' = [calls EXCEPT ![c].pc = "done", ![c].result = calls[c].secret_key,
                             ![c].creates = @ + 1]
    /\ UNCHANGED <<now, issued, ret>>

\* ---- services.py: SecretService.get_secret ------------------------------
\* the call is made and waits at `await self.repository.get(secret_key)`
GetBegin(c) ==
    /\ NextCall(c)
    /\ \E k \in Keys, pass \in Passphrases :
          calls' = [calls EXCEPT ![c] =
             [IdleCall EXCEPT
                !.op = "get", !.pc = "get", !.secret_key = k, !.passphrase = pass,
                !.late = (Succeeded(k) # {}),
                !.afterWrong = (Rejected(k) # {}),
                !.afterDecrypt = (Decrypted(k) # {}),
                !.known = (Generated(k) # {})]]
    /\ UNCHANGED <<data, now, issued, ret>>

\* get_secret deleting the record when the passphrase is wrong
GetFetch_DeleteOnWrong(c) ==
    /\ calls[c].op = "get" /\ calls[c].pc = "get"
    /\ LET secret == get_secret(data, calls[c].secret_key)
           seen == [calls[c] EXCEPT !.secret = secret, !.gets = @ + 1,
                                    !.expired = (secret # <<>> /\ Expired(secret[1], now))]
       IN  IF secret = <<>>
           THEN /\ calls' = [calls EXCEPT ![c] =
                      [seen EXCEPT !.pc = "done", !.result = InvalidSecretKeyException]]
                /\ data' = data
           ELSE IF calls[c].passphrase # decrypt(secret[1].passphrase, MASTER_KEY)
           THEN /\ calls' = [calls EXCEPT ![c] =
                      [seen EXCEPT !.pc = "done", !.result = InvalidPassphraseException]]
                /\ data' = delete_secret(data, calls[c].secret_key)
           ELSE /\ calls' = [calls EXCEPT ![c] =
                      [seen EXCEPT !.pc = "delete",
                          !.decrypted_secret = decrypt(secret[1].secret, MASTER_KEY)]]
                /\ data' = data
    /\ UNCHANGED <<now, issued, ret>>

\* get_secret decrypting the secret before it compares the passphrase
GetFetch_DecryptFirst(c) ==
    /\ calls[c].op = "get" /\ calls[c].pc = "get"
    /\ LET secret == get_secret(data, calls[c].secret_key)
           seen == [calls[c] EXCEPT !.secret = secret, !.gets = @ + 1,
                                    !.expired = (secret # <<>> /\ Expired(secret[1], now))]
       IN  calls' = [calls EXCEPT ![c] =
             IF secret = <<>>
             THEN [seen EXCEPT !.pc = "done", !.result = InvalidSecretKeyException]
             ELSE LET opened == [seen EXCEPT !.decrypted_secret =
                                    decrypt(secret[1].secret, MASTER_KEY)]
                  IN  IF calls[c].passphrase # decrypt(secret[1].passphrase, MASTER_KEY)
                      THEN [opened EXCEPT !.pc = "done",
                                          !.result = InvalidPassphraseException]
                      ELSE [opened EXCEPT !.pc = "delete"]]
    /\ UNCHANGED <<data, now, issued, ret>>

\* lines 75-83: repository.get runs; absent -> InvalidSecretKeyException;
\* passphrase differs -> InvalidPassphraseException; otherwise the secret is
\* decrypted and the call waits at `await self.repository.delete(secret_key)`.
\* An InvalidToken raised by decrypt leaves the call as it is.
GetFetch(c) ==
    /\ calls[c].op = "get" /\ calls[c].pc = "get"
    /\ LET secret == get_secret(data, calls[c].secret_key)
           seen == [calls[c] EXCEPT !.secret = secret, !.gets = @ + 1,
                                    !.expired = (secret # <<>> /\ Expired(secret[1], now))]
       IN  calls' = [calls EXCEPT ![c] =
             IF secret = <<>>
             THEN [seen EXCEPT !.pc = "done", !.result = InvalidSecretKeyException]
             ELSE LET decrypted_passphrase == decrypt(secret[1].passphrase, MASTER_KEY)
                      decrypted_secret == decrypt(secret[1].secret, MASTER_KEY)
                  IN  IF decrypted_passphrase = InvalidToken
                      THEN [seen EXCEPT !.pc = "done", !.result = InvalidToken]
                      ELSE IF calls[c].passphrase # decrypted_passphrase
                      THEN [seen EXCEPT !.pc = "done",
                                        !.result = InvalidPassphraseException]
                      ELSE IF decrypted_secret = InvalidToken
                      THEN [seen EXCEPT !.pc = "done", !.result = InvalidToken]
                      ELSE [seen EXCEPT !.pc = "delete",
                                        !.decrypted_secret = decrypted_secret]]
    /\ UNCHANGED <<data, now, issued, ret>>

\* get_secret returning the plaintext without the repository.delete
GetDelete_NoDelete(c) ==
    /\ calls[c].op = "get" /\ calls[c].pc = "delete"
    /\ calls' = [calls EXCEPT ![c].pc = "done", ![c].result = calls[c].decrypted_secret]
    /\ UNCHANGED <<data, now, issued, ret>>

\* get_secret holding back its delete while another call on the same key
\* stands between its get and its delete
GetDelete_Waits(c) ==
    /\ calls[c].op = "get" /\ calls[c].pc = "delete"
    /\ \A d \in Calls \ {c} :
          ~ (/\ calls[d].op = "get" /\ calls[d].pc = "delete"
             /\ calls[d].secret_key = calls[c].secret_key)
    /\ data' = delete_secret(data, calls[c].secret_key)
    /\ calls' = [calls EXCEPT ![c].pc = "done", ![c].result = calls[c].decrypted_secret,
                             ![c].deletes = @ + 1]
    /\ UNCHANGED <<now, issued, ret>>

\* lines 84-85: repository.delete runs, the call returns the plaintext
GetDelete(c) ==
    /\ calls[c].op = "get" /\ calls[c].pc = "delete"
    /\ data' = delete_secret(data, calls[c].secret_key)
    /\ calls' = [calls EXCEPT ![c].pc = "done", ![c].result = calls[c].decrypted_secret,
                             ![c].deletes = @ + 1]
    /\ UNCHANGED <<now, issued, ret>>

\* time passes
Tick ==
    /\ now < MaxTime
    /\ now' = now + 1
    /\ UNCHANGED <<data, calls, issued, ret>>

\* ---- the repository called directly (as tests/test_database.py does) ----
\* the records a caller can hand to the repository
StoreSecrets ==
    {Secret(encrypt(plain, MASTER_KEY, s), encrypt(pass, MASTER_KEY, s), k, exp) :
        plain \in Plaintexts, pass \in Passphrases, s \in Salts,
        k \in Keys, exp \in Expirations}

\* await repository.create_secret(secret)
StoreCreate ==
    /\ \E secret \in StoreSecrets, id \in Ids :
          /\ data' = create_secret(data, secret, id)
          /\ ret' = [op |-> "create", key |-> secret.secret_key,
                     val |-> <<secret.secret_key>>, raised |-> "-",
                     pre |-> data, time |-> now]
    /\ UNCHANGED <<now, calls, issued>>

\* await repository.get_secret(secret_key)
StoreGet ==
    /\ \E k \in Keys :
          ret' = [op |-> "get", key |-> k, val |-> get_secret(data, k),
                  raised |-> "-", pre |-> data, time |-> now]
    /\ UNCHANGED <<data, now, calls, issued>>

\* await repository.delete_secret(secret_key)
StoreDelete ==
    /\ \E k \in Keys :
          /\ data' = delete_secret(data, k)
          /\ ret' = [op |-> "delete", key |-> k, val |-> <<>>, raised |-> "-",
                     pre |-> data, time |-> now]
    /\ UNCHANGED <<now, calls, issued>>

NextStore ==
    \/ StoreCreate
    \/ StoreGet
    \/ StoreDelete
    \/ Tick

SpecStore == Init /\ [][NextStore]_vars

\* ---- the service on a repository whose backend can be unavailable -------
\* A repository operation that fails raises StoreUnavailable and has done
\* nothing to the store.  Neither generate_secret nor get_secret catches
\* anything: the exception ends the call.

\* line 58: repository.create raises
GenerateCreateFails(c) ==
    /\ calls[c].op = "generate" /\ calls[c].pc = "create"
    /\ calls' = [calls EXCEPT ![c].pc = "done", ![c].result = StoreUnavailable,
                             ![c].creates = @ + 1]
    /\ UNCHANGED <<data, now, issued, ret>>

\* a get_secret that asks the store again after a failed repository.get
GetFetchFails_Retry(c) ==
    /\ calls[c].op = "get"
    /\ calls[c].pc = "get"
    /\ calls[c].gets < 2
    /\ calls' = [calls EXCEPT ![c].gets = @ + 1]
    /\ UNCHANGED <<data, now, issued, ret>>

\* line 75: repository.get raises
GetFetchFails(c) ==
    /\ calls[c].op = "get" /\ calls[c].pc = "get"
    /\ calls' = [calls EXCEPT ![c].pc = "done", ![c].result = StoreUnavailable,
                             ![c].gets = @ + 1]
    /\ UNCHANGED <<data, now, issued, ret>>

\* line 84: repository.delete raises
GetDeleteFails(c) ==
    /\ calls[c].op = "get" /\ calls[c].pc = "delete"
    /\ calls' = [calls EXCEPT ![c].pc = "done", ![c].result = StoreUnavailable,
                             ![c].deletes = @ + 1]
    /\ UNCHANGED <<data, now, issued, ret>>

NextFail ==
    \/ \E c \in Calls : GenerateBegin(c)
    \/ \E c \in Calls : GenerateCreate(c)
    \/ \E c \in Calls : GenerateCreateFails(c)
    \/ \E c \in Calls : GetBegin(c)
    \/ \E c \in Calls : GetFetch(c)
    \/ \E c \in Calls : GetFetchFails(c)
    \/ \E c \in Calls : GetDelete(c)
    \/ \E c \in Calls : GetDeleteFails(c)

\* ---- main.py: POST /secrets/{secret_key} -----------------------------------
\* The handler awaits secret_service.get_secret and wraps what it returns in a
\* SecretResponse; it catches nothing and the application registers no
\* exception handler, so an exception of the service ends the request with
\* the framework's answer to an unhandled exception, status 500 and no
\* secret in the body.
get_secret_endpoint(result) ==
    IF result \in Exceptions
    THEN [status_code |-> 500, secret |-> <<>>]
    ELSE [status_code |-> 200, secret |-> <<result>>]

SpecFail == Init /\ [][NextFail]_vars

Next ==
    \/ \E c \in Calls : GenerateBegin(c)
    \/ \E c \in Calls : GenerateCreate(c)
    \/ \E c \in Calls : GetBegin(c)
    \/ \E c \in Calls : GetFetch(c)
    \/ \E c \in Calls : GetDelete(c)
    \/ Tick

\* ---- the service when uuid4 repeats a value ------------------------------
\* uuid4 is random: nothing in generate_secret or in the repository keeps a
\* drawn key from being one that was drawn before.

\* lines 46-56 with a key uuid4 may have returned already
GenerateBeginColliding(c) ==
    /\ NextCall(c)
    /\ \E plain \in Plaintexts, pass \in Passphrases, exp \in Expirations,
          s1 \in Salts, s2 \in Salts, k \in Keys :
          /\ calls' = [calls EXCEPT ![c] =
                [IdleCall EXCEPT
                   !.op = "generate", !.pc = "create",
                   !.secret_key = k, !.passphrase = pass, !.plain = plain,
                   !.secret = <<Secret(encrypt(plain, MASTER_KEY, s1),
                                       encrypt(pass, MASTER_KEY, s2), k, exp)>>]]
          /\ issued' = issued \cup {k}
    /\ UNCHANGED <<data, now, ret>>

NextCollide ==
    \/ \E c \in Calls : GenerateBeginColliding(c)
    \/ \E c \in Calls : GenerateCreate(c)
    \/ \E c \in Calls : GetBegin(c)
    \/ \E c \in Calls : GetFetch(c)
    \/ \E c \in Calls : GetDelete(c)

SpecCollide == Init /\ [][NextCollide]_vars

\* ---- utils.py called directly (as tests/test_utils.py does) -------------
\* the master keys a caller can pass
MasterKeys == {MASTER_KEY, "mk2", "mk3"}
\* the values os.urandom(16) can return inside encrypt
UtilSalts == {"s1", "s2", "s3"}
\* the strings a caller can encrypt
UtilData == Plaintexts \cup Passphrases

\* encrypt(data, master_key): draws the salt and returns the payload
UtilsEncrypt ==
    /\ \E d \in UtilData, mk \in MasterKeys, salt \in UtilSalts :
          ret' = [op |-> "encrypt", data |-> d, master_key |-> mk, salt |-> salt,
                  with |-> "-", val |-> <<encrypt(d, mk, salt)>>, raised |-> "-"]
    /\ UNCHANGED <<data, now, calls, issued>>

\* decrypt(encrypted_data, master_key) on the payload encrypt returned last:
\* it returns the data or raises InvalidToken
UtilsDecrypt ==
    /\ ret.op = "encrypt"
    /\ \E mk \in MasterKeys :
          LET out == decrypt(ret.val[1], mk) IN
          ret' = [ret EXCEPT !.op = "decrypt", !.with = mk,
                     !.val = IF out = InvalidToken THEN <<>> ELSE <<out>>,
                     !.raised = IF out = InvalidToken THEN InvalidToken ELSE "-"]
    /\ UNCHANGED <<data, now, calls, issued>>

NextUtils ==
    \/ UtilsEncrypt
    \/ UtilsDecrypt

SpecUtils == Init /\ [][NextUtils]_vars

\* ---- the service with the repository's delete called beside it ----------
NextFrame ==
    \/ \E c \in Calls : GenerateBegin(c)
    \/ \E c \in Calls : GenerateCreate(c)
    \/ \E c \in Calls : GetBegin(c)
    \/ \E c \in Calls : GetFetch(c)
    \/ \E c \in Calls : GetDelete(c)
    \/ StoreDelete

SpecFrame == Init /\ [][NextFrame]_vars

\* ---- the service under the event loop's scheduling ----------------------
\* A call waiting at an await on a repository method is resumed by the event
\* loop: the repository's coroutines wait for nothing, and the loop runs the
\* ready coroutines in turn.
SpecLive ==
    /\ Init
    /\ [][Next]_vars
    /\ \A c \in Calls :
          /\ WF_vars(GenerateCreate(c))
          /\ WF_vars(GetFetch(c))
          /\ WF_vars(GetDelete(c))

Spec == Init /\ [][Next]_vars

\* ---- properties ----------------------------------------------------------
\* the generate_secret call that drew the key k (k \in issued)
GenCall(k) == CHOOSE g \in Calls : calls[g].op = "generate" /\ calls[g].secret_key = k

\* the get_secret calls made so far on the key k
GetCalls(k) == {c \in Calls : calls[c].op = "get" /\ calls[c].secret_key = k}

\* the call c is a get_secret carrying the passphrase its key was created with
CorrectPassphrase(c) ==
    /\ calls[c].op = "get"
    /\ calls[c].secret_key \in issued
    /\ calls[c].passphrase = calls[GenCall(calls[c].secret_key)].passphrase

\* C1: single use.  A get_secret call made after a get_secret on the same key
\* has returned the plaintext never holds a plaintext and ends with
\* InvalidSecretKeyException, whatever passphrase it carries; the record of a
\* consumed key is no longer in the store.
C1_SingleUse ==
    /\ \A c \in Calls :
          (calls[c].op = "get" /\ calls[c].late) =>
             /\ calls[c].pc # "delete"
             /\ calls[c].decrypted_secret = "-"
             /\ (calls[c].pc = "done" => calls[c].result = InvalidSecretKeyException)
    /\ \A k \in Keys : Succeeded(k) # {} => k \notin DOMAIN data

\* a second get_secret with the correct passphrase, made after the first one
\* returned the plaintext, has ended
C1_Witness ==
    \E c \in Calls :
        /\ calls[c].op = "get" /\ calls[c].late /\ calls[c].pc = "done"
        /\ CorrectPassphrase(c)

\* the get_secret calls on k that carry the correct passphrase and were made
\* while the secret under k had been created, never expires and had not been
\* returned yet
Contenders(k) ==
    {c \in GetCalls(k) :
        /\ calls[c].known /\ ~calls[c].late /\ CorrectPassphrase(c)
        /\ calls[GenCall(k)].secret[1].expiration = <<>>}

\* C2: concurrent consume.  When two or more get_secret calls with the correct
\* passphrase for one live key have all ended, exactly one of them has
\* returned the plaintext (the others ended with InvalidSecretKeyException).
C2_ExactlyOneConsumer ==
    \A k \in Keys :
        (Cardinality(Contenders(k)) >= 2 /\ \A c \in Contenders(k) : calls[c].pc = "done")
           => /\ Cardinality(Contenders(k) \cap Succeeded(k)) = 1
              /\ \A c \in Contenders(k) \ Succeeded(k) :
                     calls[c].result = InvalidSecretKeyException

\* C3: round trip.  A get_secret call with the correct passphrase, made after
\* generate_secret returned the key, with no other get_secret on that key and
\* the record not expired when it was read, returns the plaintext given to
\* generate_secret.
C3_RoundTrip ==
    \A c \in Calls :
        (/\ calls[c].op = "get" /\ calls[c].pc = "done"
         /\ calls[c].known /\ CorrectPassphrase(c)
         /\ GetCalls(calls[c].secret_key) = {c}
         /\ ~calls[c].expired)
           => calls[c].result = calls[GenCall(calls[c].secret_key)].plain

\* such a get_secret call has returned
C3_Witness ==
    \E c \in Calls :
        /\ calls[c].op = "get" /\ calls[c].pc = "done"
        /\ calls[c].known /\ CorrectPassphrase(c)
        /\ GetCalls(calls[c].secret_key) = {c}
        /\ ~calls[c].expired
        /\ calls[c].result \in Plaintexts

\* the step in which the call c runs repository.get and the checks after it
Fetches(c) ==
    calls[c].op = "get" /\ calls[c].pc = "get" /\ calls'[c].pc # "get"

\* C4: wrong passphrase.  A get_secret that finds a record and carries another
\* passphrase than the one given at creation ends with
\* InvalidPassphraseException and leaves the store as it was; a get_secret with
\* the correct passphrase that finds the record after such attempts goes on to
\* return the original plaintext.
C4_WrongPassphrase ==
    [][\A c \in Calls :
         LET k == calls[c].secret_key IN
         /\ (Fetches(c) /\ k \in DOMAIN data /\ ~CorrectPassphrase(c))
               => /\ calls'[c].pc = "done"
                  /\ calls'[c].result = InvalidPassphraseException
                  /\ data' = data
         /\ (Fetches(c) /\ k \in DOMAIN data /\ CorrectPassphrase(c)
                        /\ Rejected(k) # {})
               => /\ calls'[c].pc = "delete"
                  /\ calls'[c].decrypted_secret = calls[GenCall(k)].plain
         /\ (calls[c].op = "get" /\ calls[c].pc = "delete" /\ calls'[c].pc = "done")
               => calls'[c].result = calls[c].decrypted_secret
      ]_vars

\* a get_secret made after a rejected attempt on its key has returned the
\* original plaintext
C4_Witness ==
    \E c \in Calls :
        /\ calls[c].op = "get" /\ calls[c].pc = "done" /\ calls[c].afterWrong
        /\ calls[c].result = calls[GenCall(calls[c].secret_key)].plain

\* C5: expiry.  A get_secret call that reads a record whose expiration time
\* has been reached never holds its plaintext and ends with
\* InvalidSecretKeyException.
C5_ExpiredUnreachable ==
    \A c \in Calls :
        (calls[c].op = "get" /\ calls[c].expired) =>
           /\ calls[c].pc # "delete"
           /\ (calls[c].pc = "done" => calls[c].result = InvalidSecretKeyException)

\* C6: visibility.  The repository's get returns a record exactly when one is
\* stored under the key and it has no expiration or the time of the call is
\* before its expiration.
C6_VisibleIffLive ==
    ret.op = "get" =>
       ((ret.val # <<>>) <=>
          (/\ ret.key \in DOMAIN ret.pre
           /\ ~Expired(ret.pre[ret.key], ret.time)))

\* C7: unknown key.  A get_secret whose key is not in the store when
\* repository.get runs ends there with InvalidSecretKeyException, whatever
\* its passphrase, and leaves the store as it was.
C7_UnknownKey ==
    [][\A c \in Calls :
         (Fetches(c) /\ calls[c].secret_key \notin DOMAIN data)
            => /\ calls'[c].pc = "done"
               /\ calls'[c].result = InvalidSecretKeyException
               /\ calls'[c].decrypted_secret = "-"
               /\ data' = data
      ]_vars

\* a get_secret on a key that was never generated, with a passphrase that no
\* stored secret was created with, has ended with InvalidSecretKeyException
\* while the store holds a record
C7_Witness ==
    \E c \in Calls :
        /\ calls[c].op = "get" /\ calls[c].pc = "done"
        /\ calls[c].secret_key \notin issued
        /\ calls[c].result = InvalidSecretKeyException
        /\ DOMAIN data # {}
        /\ \A k \in DOMAIN data :
              decrypt(data[k].passphrase, MASTER_KEY) # calls[c].passphrase

\* C9: duplicate key.  The repository's create, given a record whose key is
\* already in the store, fails with DuplicateKey and leaves the store as it
\* was.
C9_DuplicateKeyRejected ==
    (ret.op = "create" /\ ret.key \in DOMAIN ret.pre) =>
       /\ ret.raised = "DuplicateKey"
       /\ data = ret.pre

\* C10: delete.  The repository's delete raises nothing; it removes the
\* record under its key and no other record; on an absent key it leaves the
\* store as it was; a second delete of the same key changes nothing more.
C10_DeleteIdempotent ==
    ret.op = "delete" =>
       /\ ret.raised = "-"
       /\ DOMAIN data = (DOMAIN ret.pre) \ {ret.key}
       /\ \A k \in DOMAIN data : data[k] = ret.pre[k]
       /\ (ret.key \notin DOMAIN ret.pre => data = ret.pre)
       /\ delete_secret(data, ret.key) = data

\* a key has just been deleted a second time while the store holds another
\* record
C10_Witness ==
    /\ ret.op = "delete"
    /\ ret.key \notin DOMAIN ret.pre
    /\ DOMAIN ret.pre # {}
    /\ data = ret.pre

\* the life-cycle state of the record created under the key k
RecordState(k) ==
    IF Generated(k) = {} THEN "NONE"
    ELSE IF Succeeded(k) # {} THEN "CONSUMED"
    ELSE IF Expired(calls[GenCall(k)].secret[1], now) THEN "EXPIRED"
    ELSE "PENDING"

\* C11: record life cycle.  A record is created PENDING (or already EXPIRED
\* when its expiration lies in the past), goes from PENDING to CONSUMED or
\* to EXPIRED and makes no other move; a get_secret that reads the store
\* while the key is CONSUMED or EXPIRED obtains no plaintext; a record leaves
\* the store only in the step in which a get_secret returns its plaintext.
C11_RecordLifecycle ==
    [][\A k \in Keys :
         /\ RecordState(k)' # RecordState(k) =>
               <<RecordState(k), RecordState(k)'>> \in
                  {<<"NONE", "PENDING">>, <<"NONE", "EXPIRED">>,
                   <<"PENDING", "CONSUMED">>, <<"PENDING", "EXPIRED">>}
         /\ \A c \in Calls :
               (Fetches(c) /\ calls[c].secret_key = k
                   /\ RecordState(k) \in {"CONSUMED", "EXPIRED"})
                  => /\ calls'[c].pc = "done"
                     /\ calls'[c].decrypted_secret = "-"
         /\ (k \in DOMAIN data /\ k \notin DOMAIN data' /\ RecordState(k) = "PENDING")
               => \E c \in Calls :
                     /\ calls[c].op = "get" /\ calls[c].secret_key = k
                     /\ calls[c].pc = "delete" /\ calls'[c].pc = "done"
                     /\ calls'[c].result = calls[GenCall(k)].plain
      ]_vars

\* the record r is all of what the generate_secret call g was asked to store
Complete(r, g) ==
    /\ r.secret_key = calls[g].secret_key
    /\ decrypt(r.secret, MASTER_KEY) = calls[g].plain
    /\ decrypt(r.passphrase, MASTER_KEY) = calls[g].passphrase
    /\ r.expiration = calls[g].secret[1].expiration
    /\ r.id \in Ids

Sealed(x) == x.salt \in Salts /\ x.key = derive_key(MASTER_KEY, x.salt)

C14_PassphraseNeverStored ==
    \A k \in DOMAIN data :
        LET passphrase == calls[GenCall(k)].passphrase IN
        /\ decrypt(data[k].passphrase, MASTER_KEY) # passphrase
        /\ decrypt(data[k].secret, MASTER_KEY) # passphrase
        /\ data[k].secret_key # passphrase
        /\ data[k].id # passphrase

C16_NotFoundIndistinguishable ==
    \A c \in Calls :
        (/\ calls[c].op = "get" /\ calls[c].pc \in {"delete", "done"}
         /\ \/ calls[c].secret_key \notin issued
            \/ calls[c].late
            \/ calls[c].expired)
           => /\ calls[c].pc = "done"
              /\ calls[c].result = InvalidSecretKeyException

\* the get_secret call c has checked its passphrase against the record it
\* read and decrypted the secret
Verified(c) ==
    /\ calls[c].secret # <<>>
    /\ calls[c].passphrase = decrypt(calls[c].secret[1].passphrase, MASTER_KEY)
    /\ calls[c].decrypted_secret = decrypt(calls[c].secret[1].secret, MASTER_KEY)
    /\ calls[c].decrypted_secret \notin Exceptions

\* C17: order of delete.  get_secret issues repository.delete only after it
\* has verified the passphrase and decrypted the secret, and issues it in the
\* step in which it returns: a record leaves the store only through a call
\* that has verified its passphrase, and when a call returns the plaintext the
\* record is no longer in the store.
C17_DeleteAfterVerifyBeforeReturn ==
    [][/\ \A c \in Calls :
            /\ calls'[c].deletes > calls[c].deletes
                  => calls[c].op = "get" /\ calls[c].pc = "delete" /\ Verified(c)
            /\ (calls[c].op = "get" /\ calls[c].pc # "done" /\ calls'[c].pc = "done"
                    /\ calls'[c].result \notin Exceptions)
                  => /\ calls[c].deletes = 0 /\ calls'[c].deletes = 1
                     /\ calls[c].secret_key \notin DOMAIN data'
      /\ \A k \in DOMAIN data :
              k \notin DOMAIN data' =>
                 \E c \in Calls :
                    /\ calls[c].op = "get" /\ calls[c].secret_key = k
                    /\ calls[c].pc = "delete" /\ calls'[c].pc = "done"
                    /\ Verified(c)
                    /\ calls[c].passphrase = decrypt(data[k].passphrase, MASTER_KEY)
      ]_vars

\* a get_secret has returned the plaintext after its one delete
C17_Witness ==
    \E c \in Calls :
        /\ calls[c].op = "get" /\ calls[c].pc = "done"
        /\ calls[c].result \in Plaintexts /\ calls[c].deletes = 1
        /\ calls[c].secret_key \notin DOMAIN data

\* C18: once decrypted, never readable again.  A get_secret call that begins
\* after some call has decrypted the secret of its key (whether or not that
\* call's delete has been issued, and whether or not it succeeded) never
\* reaches the decryption itself and never returns the plaintext.
C18_NeverReadableAfterDecrypt ==
    \A c \in Calls :
        (calls[c].op = "get" /\ calls[c].afterDecrypt)
           => /\ calls[c].pc # "delete"
              /\ calls[c].decrypted_secret \notin Plaintexts
              /\ calls[c].result \notin Plaintexts

\* C19: no retries.  Within one generate_secret or get_secret call each
\* repository operation is issued at most once, and a repository operation
\* that fails ends the call in that very step with the failure as its
\* result, the store untouched.
C19_NoRetry ==
    /\ [](\A c \in Calls :
             /\ calls[c].creates <= 1 /\ calls[c].gets <= 1 /\ calls[c].deletes <= 1
             /\ calls[c].op = "generate" => calls[c].gets = 0 /\ calls[c].deletes = 0
             /\ calls[c].op = "get" => calls[c].creates = 0)
    /\ [][\A c \in Calls :
            /\ (calls'[c] # calls[c] /\ calls[c].pc \in {"create", "get", "delete"})
                  => calls'[c].creates + calls'[c].gets + calls'[c].deletes
                        = calls[c].creates + calls[c].gets + calls[c].deletes + 1
            /\ (calls'[c].result = StoreUnavailable /\ calls[c].result # StoreUnavailable)
                  => calls'[c].pc = "done" /\ data' = data
      ]_vars

\* a repository.delete has failed in one get_secret call and a repository.get
\* in another, and each call has ended with that failure, the first after one
\* get and one delete, the second after one get
C19_Witness ==
    \E c, d \in Calls :
        /\ calls[c].op = "get" /\ calls[c].pc = "done"
        /\ calls[c].result = StoreUnavailable
        /\ calls[c].gets = 1 /\ calls[c].deletes = 1
        /\ calls[d].op = "get" /\ calls[d].pc = "done"
        /\ calls[d].result = StoreUnavailable
        /\ calls[d].gets = 1 /\ calls[d].deletes = 0

\* C20: HTTP answers of POST /secrets/{secret_key}.  A request whose key has
\* no record in the store (never created or already retrieved) is answered
\* 404, a request with a wrong passphrase for an existing key is answered 400,
\* and neither answer has status 200 or carries a secret.
C20_HttpStatus ==
    \A c \in Calls :
        (calls[c].op = "get" /\ calls[c].pc = "done") =>
           LET response == get_secret_endpoint(calls[c].result) IN
           /\ calls[c].result = InvalidSecretKeyException
                 => response.status_code = 404
           /\ calls[c].result = InvalidPassphraseException
                 => response.status_code = 400
           /\ calls[c].result \in Exceptions
                 => response.status_code # 200 /\ response.secret = <<>>

\* C21: no overwrite on a key collision.  A generate_secret call whose key is
\* already bound in the store does not report success, and no create replaces
\* the record stored under a key.
C21_NoOverwrite ==
    [][/\ \A c \in Calls :
            (calls[c].op = "generate" /\ calls[c].pc = "create"
                /\ calls'[c].pc = "done" /\ calls'[c].result = calls[c].secret_key)
               => calls[c].secret_key \notin DOMAIN data
       /\ \A k \in (DOMAIN data) \cap (DOMAIN data') : data'[k] = data[k]
      ]_vars

\* C22: a stored record is immutable.  As long as a key stays bound its record
\* is the one that was written, and a key becomes unbound only in the step
\* in which a get_secret on it returns the plaintext, or when its record has
\* expired.
C22_RecordImmutable ==
    [][\A k \in DOMAIN data :
          IF k \in DOMAIN data'
          THEN /\ data'[k].secret = data[k].secret
               /\ data'[k].passphrase = data[k].passphrase
               /\ data'[k].expiration = data[k].expiration
          ELSE \/ Expired(data[k], now')
               \/ \E c \in Calls :
                     /\ calls[c].op = "get" /\ calls[c].secret_key = k
                     /\ calls[c].pc = "delete" /\ calls'[c].pc = "done"
                     /\ calls'[c].result = decrypt(data[k].secret, MASTER_KEY)
      ]_vars

\* C23: the encryption key comes from the passphrase.  The secret stored by a
\* generate_secret call is sealed under the key derived from that call's
\* passphrase and the payload's salt, and it cannot be opened with key
\* material derived from any other passphrase.
C23_KeyFromPassphrase ==
    \A k \in DOMAIN data :
        LET K1 == calls[GenCall(k)].passphrase IN
        /\ data[k].secret.key = derive_key(K1, data[k].secret.salt)
        /\ decrypt(data[k].secret, K1) = calls[GenCall(k)].plain
        /\ \A K2 \in Passphrases \ {K1} : decrypt(data[k].secret, K2) = InvalidToken

\* C24: encrypt and decrypt are inverse.  The payload encrypt returns carries
\* the salt encrypt drew in front of a token sealed under the key derived from
\* the master key and that salt, so it is not the data itself, and decrypt
\* with the same master key returns the data, whichever salt was drawn.
C24_EncryptDecryptInverse ==
    /\ ret.op = "encrypt" =>
          /\ ret.val[1].salt = ret.salt
          /\ ret.val[1].key = derive_key(ret.master_key, ret.salt)
          /\ decrypt(ret.val[1], ret.master_key) = ret.data
    /\ (ret.op = "decrypt" /\ ret.with = ret.master_key) =>
          ret.raised = "-" /\ ret.val = <<ret.data>>

\* a payload made with a salt and a master key other than the service's has
\* been decrypted with the same master key
C24_Witness ==
    /\ ret.op = "decrypt" /\ ret.with = ret.master_key
    /\ ret.master_key # MASTER_KEY /\ ret.salt = "s2"
    /\ ret.val = <<ret.data>>

\* C25: wrong key.  decrypt of a payload that encrypt made under one master
\* key, called with another master key, raises InvalidToken and returns
\* nothing.
C25_WrongKeyFails ==
    (ret.op = "decrypt" /\ ret.with # ret.master_key) =>
        ret.raised = InvalidToken /\ ret.val = <<>>

\* decrypt has been called with a master key other than the one of encrypt
C25_Witness ==
    /\ ret.op = "decrypt" /\ ret.with # ret.master_key
    /\ ret.raised = InvalidToken

\* C26: a failing get_secret exposes nothing.  A get_secret call that ended
\* with an exception has an exception and nothing else as its result; when
\* the key was unknown or the passphrase wrong, the call has not decrypted the
\* secret; and a call holds a decrypted secret only after its passphrase
\* matched the stored one.
C26_FailureExposesNothing ==
    \A c \in Calls :
        calls[c].op = "get" =>
           /\ (calls[c].pc = "done" /\ calls[c].result \notin Plaintexts)
                 => calls[c].result \in Exceptions
           /\ (calls[c].pc = "done" /\ calls[c].result \in
                    {InvalidSecretKeyException, InvalidPassphraseException})
                 => calls[c].decrypted_secret = "-"
           /\ calls[c].decrypted_secret # "-"
                 => /\ calls[c].secret # <<>>
                    /\ calls[c].passphrase =
                          decrypt(calls[c].secret[1].passphrase, MASTER_KEY)

\* a get_secret has ended with InvalidPassphraseException on a record it read,
\* and another has ended with a failed delete after decrypting
C26_Witness ==
    \E c, d \in Calls :
        /\ calls[c].op = "get" /\ calls[c].pc = "done"
        /\ calls[c].result = InvalidPassphraseException /\ calls[c].secret # <<>>
        /\ calls[d].op = "get" /\ calls[d].pc = "done"
        /\ calls[d].result = StoreUnavailable /\ calls[d].decrypted_secret \in Plaintexts

\* C27: operations on one key leave the other keys alone.  In every step of a
\* get_secret call on the key k, and in every direct delete(k) of the
\* repository, each record stored under another key stays in the store and
\* stays what it was.
C27_OtherKeysUntouched ==
    [][/\ \A c \in Calls :
            (calls'[c].op = "get" /\ calls'[c] # calls[c]) =>
               \A j \in (DOMAIN data) \ {calls'[c].secret_key} :
                  j \in DOMAIN data' /\ data'[j] = data[j]
       /\ (ret' # ret /\ ret'.op = "delete") =>
               \A j \in (DOMAIN data) \ {ret'.key} :
                  j \in DOMAIN data' /\ data'[j] = data[j]
      ]_vars

\* two secrets were created with the same plaintext and passphrase; the record
\* of one was removed by a direct delete and a get_secret on its key returned
\* the plaintext, and the record of the other is still in the store
C27_Witness ==
    \E k \in Keys, j \in Keys :
        /\ k # j /\ k \in issued /\ j \in issued
        /\ calls[GenCall(k)].plain = calls[GenCall(j)].plain
        /\ calls[GenCall(k)].passphrase = calls[GenCall(j)].passphrase
        /\ Succeeded(k) # {}
        /\ ret.op = "delete" /\ ret.key = k /\ k \in DOMAIN ret.pre
        /\ k \notin DOMAIN data
        /\ j \in DOMAIN data

\* C28: every call completes.  A generate_secret or get_secret call that has
\* been started and waits at a repository operation eventually ends, with a
\* result or an exception, whatever the other calls do.
C28_EveryCallCompletes ==
    \A c \in Calls :
        (calls[c].pc \in {"create", "get", "delete"}) ~> (calls[c].pc = "done")

\* two get_secret calls on the same key ran at the same time (each read the
\* record before the other deleted it) and both have ended
C28_Witness ==
    \E c \in Calls, d \in Calls :
        /\ c # d
        /\ calls[c].op = "get" /\ calls[d].op = "get"
        /\ calls[c].secret_key = calls[d].secret_key
        /\ calls[c].pc = "done" /\ calls[d].pc = "done"
        /\ calls[c].deletes = 1 /\ calls[d].deletes = 1

====
